---- MODULE Spec2Model ----
(***************************************************************************)
(* Legacy context propagation of the fiber reconciler (ReactFiberContext). *)
(* Two stack cursors (the merged context object, the did-perform-work     *)
(* flag), the previousContext slot and the memo fields kept on each class *)
(* instance, driven by a depth-first traversal of fibers.                 *)
(*                                                                         *)
(* Objects are modelled by reference: an environment is a number, its     *)
(* contents live in heap, and `{}` / `{...a, ...b}` allocate a fresh      *)
(* number, so that `===` on objects is equality of references.            *)
(***************************************************************************)
EXTENDS Integers, Sequences, FiniteSets, TLC

VARIABLES
    heap,                      \* contents of every allocated object, by reference
    contextStackCursor,        \* frames of the context cursor, bottom to top
    didPerformWorkStackCursor, \* frames of the did-perform-work cursor
    previousContext,           \* reference saved by the last pushContextProvider
    stateNode,                 \* per fiber: the class instance and its memo fields
    tree,                      \* the components of the tree being rendered
    path,                      \* fibers entered and not yet exited, root first
    last                       \* the last call made: arguments and outcome

vars == <<heap, contextStackCursor, didPerformWorkStackCursor, previousContext,
          stateNode, tree, path, last>>

----------------------------------------------------------------------------
(* Bounds of the exploration *)

MaxHeap == 4       \* objects allocated besides emptyObject
MaxRoots == 2      \* root frames pushed at once, when a render pass is re-entered

----------------------------------------------------------------------------
(* Fibers and component types *)

HostRoot == "HostRoot"
ClassComponent == "ClassComponent"

Root == "HostRootFiber"
Components == {"MessageList", "Test", "Button", "Theme", "Bare"}
Fibers == {Root} \cup Components

\* The trees traversed nest the components in this order (any of them may be
\* left out, so Test is met both inside MessageList and beside it).
Rank(fiber) ==
    CASE fiber = Root -> 0
      [] fiber = "MessageList" -> 1
      [] fiber = "Test" -> 2
      [] fiber = "Theme" -> 3
      [] fiber = "Bare" -> 4
      [] fiber = "Button" -> 5

\* The trees rendered, by the components they are made of: every pairing of
\* provider with provider and of provider with consumer, and the demo's tree.
Trees ==
    {{"MessageList", "Test"}, {"MessageList", "Button"}, {"MessageList", "Theme"},
     {"Theme", "Bare"}, {"Bare", "Button"}, {"Theme", "Button"}}

DemoTrees == {{"MessageList", "Test", "Button"}}

tag(fiber) == IF fiber = Root THEN HostRoot ELSE ClassComponent

\* Button.contextTypes = {color}; Theme reads color as well.
hasContextTypes(fiber) == fiber \in {"Button", "Theme"}
contextTypes(fiber) == IF hasContextTypes(fiber) THEN {"color"} ELSE {}

\* MessageList.childContextTypes = Test.childContextTypes = {color};
\* Theme declares size; Bare declares color but defines no getChildContext.
hasChildContextTypes(fiber) == fiber \in {"MessageList", "Test", "Theme", "Bare"}
childContextTypes(fiber) ==
    CASE fiber \in {"MessageList", "Test", "Bare"} -> {"color"}
      [] fiber = "Theme" -> {"size"}
      [] OTHER -> {}

\* typeof instance.getChildContext === 'function'
hasGetChildContext(fiber) == fiber \in {"MessageList", "Test", "Theme"}

\* What instance.getChildContext() may return.  Theme's second answer has a
\* key outside its childContextTypes.
getChildContext(fiber) ==
    CASE fiber = "MessageList" -> {[color |-> "purple"]}
      [] fiber = "Test" -> {[color |-> "red"]}
      [] fiber = "Theme" -> {[size |-> "big"], [size |-> "big", color |-> "red"]}
      [] OTHER -> {}

----------------------------------------------------------------------------
(* Objects *)

emptyObject == 0           \* the canonical empty object
undefined == -1            \* no object: a field never written, a null stateNode
EmptyEnv == [k \in {} |-> "undefined"]

Refs == 0 .. Len(heap)
Obj(ref) == IF ref = emptyObject THEN EmptyEnv ELSE heap[ref]

\* unmaskedContext[key]
Get(env, key) == IF key \in DOMAIN env THEN env[key] ELSE "undefined"

\* The context a host root is rendered with: the object the container was
\* given, allocated before the first render pass.
RootContexts == {1}

----------------------------------------------------------------------------
(* The stack cursor: createCursor, push, pop and the cursor's fields *)

createCursor == << >>

current(cursor, defaultValue) ==
    IF cursor = << >> THEN defaultValue ELSE cursor[Len(cursor)].value

push(cursor, value, fiber) == Append(cursor, [owner |-> fiber, value |-> value])

pop(cursor, fiber) ==
    IF cursor = << >> THEN cursor ELSE SubSeq(cursor, 1, Len(cursor) - 1)

\* A cursor is the object {current}: it has no property named `cursor`, so
\* reading one yields undefined whatever the stack holds.
cursorProperty(cursor) == undefined

contextCurrent == current(contextStackCursor, emptyObject)
didPerformWorkCurrent == current(didPerformWorkStackCursor, FALSE)

----------------------------------------------------------------------------
(* Pure reads *)

isContextConsumer(fiber) == tag(fiber) = ClassComponent /\ hasContextTypes(fiber)

isContextProvider(fiber) == tag(fiber) = ClassComponent /\ hasChildContextTypes(fiber)

\* Mutant: a provider reads the top of the register, its own frame included.
getUnmaskedContext_seesOwn(workInProgress) == contextCurrent

getUnmaskedContext(workInProgress) ==
    IF isContextProvider(workInProgress) THEN previousContext ELSE contextCurrent

hasContextChanged == didPerformWorkCurrent

----------------------------------------------------------------------------
(* Bookkeeping of the traversal and of the last call *)

NoInstance ==
    [exists |-> FALSE,
     memoizedMergedChildContext |-> undefined,
     memoizedUnmaskedChildContext |-> undefined,
     memoizedMaskedChildContext |-> undefined]

\* One entry per live fiber.  inv: the didChange of its last successful
\* invalidate ("none" before any); republished: it has been invalidated with
\* didChange = true since it was entered; late: its last such invalidate came
\* after a descendant provider had been pushed; kids: a descendant provider
\* has been pushed since the fiber was entered; preContext,
\* preDidPerformWork: the two cursors as they were when the fiber was entered;
\* contribution: what its getChildContext returned at its last invalidate
\* with didChange = true.
Entry(fiber) ==
    [node |-> fiber, inv |-> "none", republished |-> FALSE, late |-> FALSE,
     kids |-> FALSE,
     preContext |-> contextStackCursor,
     preDidPerformWork |-> didPerformWorkStackCursor,
     contribution |-> EmptyEnv]

Top == path[Len(path)]
LiveFibers == {path[i].node : i \in 1 .. Len(path)}

NoCall ==
    [op |-> "none", node |-> Root, env |-> undefined, flag |-> FALSE,
     res |-> undefined, ret |-> FALSE, ok |-> TRUE, called |-> FALSE,
     rep |-> FALSE, prevRes |-> undefined,
     preContext |-> << >>, preDidPerformWork |-> << >>, inv |-> "none",
     chain |-> << >>, steps |-> << >>]

Call(op, fiber, env, flag) ==
    [op |-> op, node |-> fiber, env |-> env, flag |-> flag,
     res |-> undefined, ret |-> FALSE, ok |-> TRUE, called |-> FALSE,
     rep |-> (last.op = op /\ last.node = fiber /\ last.env = env /\ last.flag = flag),
     prevRes |-> IF last.op = op /\ last.node = fiber /\ last.env = env /\ last.flag = flag
                 THEN last.res ELSE undefined,
     preContext |-> << >>, preDidPerformWork |-> << >>, inv |-> "none",
     chain |-> << >>, steps |-> << >>]

\* The push and pop calls an operation makes on the cursors, in program order
pushed(cursorName, value, flag, fiber) ==
    [do |-> "push", cursor |-> cursorName, owner |-> fiber, value |-> value, flag |-> flag]

popped(cursorName, fiber) ==
    [do |-> "pop", cursor |-> cursorName, owner |-> fiber, value |-> undefined, flag |-> FALSE]

----------------------------------------------------------------------------
(* Root frame *)

pushTopLevelContextObject(fiber, context, didChange) ==
    IF cursorProperty(contextStackCursor) = undefined
    THEN /\ contextStackCursor' = push(contextStackCursor, context, fiber)
         /\ didPerformWorkStackCursor' = push(didPerformWorkStackCursor, didChange, fiber)
         /\ path' = Append(path, Entry(fiber))
         /\ last' = [Call("pushTopLevelContextObject", fiber, context, didChange)
                        EXCEPT !.preContext = contextStackCursor,
                               !.preDidPerformWork = didPerformWorkStackCursor,
                               !.steps = <<pushed("context", context, FALSE, fiber),
                                           pushed("didPerformWork", undefined, didChange, fiber)>>]
         /\ UNCHANGED <<heap, previousContext, stateNode, tree>>
    ELSE /\ last' = [Call("pushTopLevelContextObject", fiber, context, didChange)
                        EXCEPT !.ok = FALSE,
                               !.preContext = contextStackCursor,
                               !.preDidPerformWork = didPerformWorkStackCursor]
         /\ UNCHANGED <<heap, contextStackCursor, didPerformWorkStackCursor,
                        previousContext, stateNode, tree, path>>

popTopLevelContextObject(fiber) ==
    /\ didPerformWorkStackCursor' = pop(didPerformWorkStackCursor, fiber)
    /\ contextStackCursor' = pop(contextStackCursor, fiber)
    /\ path' = SubSeq(path, 1, Len(path) - 1)
    /\ last' = [Call("popTopLevelContextObject", fiber, undefined, FALSE)
                   EXCEPT !.preContext = Top.preContext,
                          !.preDidPerformWork = Top.preDidPerformWork,
                          !.inv = Top.inv,
                          !.steps = <<popped("didPerformWork", fiber),
                                      popped("context", fiber)>>]
    /\ UNCHANGED <<heap, previousContext, stateNode, tree>>

----------------------------------------------------------------------------
(* Provider frames *)

MarkKids(p) == [i \in 1 .. Len(p) |-> [p[i] EXCEPT !.kids = TRUE]]

\* Mutant: the provider's frame gets a fresh false instead of the inherited flag.
pushContextProvider_freshFlag(workInProgress) ==
    IF ~isContextProvider(workInProgress)
    THEN /\ path' = Append(path, Entry(workInProgress))
         /\ last' = [Call("pushContextProvider", workInProgress, undefined, FALSE)
                        EXCEPT !.preContext = contextStackCursor,
                               !.preDidPerformWork = didPerformWorkStackCursor]
         /\ UNCHANGED <<heap, contextStackCursor, didPerformWorkStackCursor,
                        previousContext, stateNode, tree>>
    ELSE LET instance == stateNode[workInProgress]
             memoizedMergedChildContext ==
                 IF instance.exists /\ instance.memoizedMergedChildContext # undefined
                 THEN instance.memoizedMergedChildContext
                 ELSE emptyObject
         IN /\ previousContext' = contextCurrent
            /\ contextStackCursor' =
                   push(contextStackCursor, memoizedMergedChildContext, workInProgress)
            /\ didPerformWorkStackCursor' =
                   push(didPerformWorkStackCursor, FALSE, workInProgress)
            /\ path' = Append(MarkKids(path), Entry(workInProgress))
            /\ last' = [Call("pushContextProvider", workInProgress, undefined, FALSE)
                           EXCEPT !.ret = TRUE,
                                  !.steps = <<pushed("context", memoizedMergedChildContext,
                                                     FALSE, workInProgress),
                                              pushed("didPerformWork", undefined,
                                                     FALSE, workInProgress)>>,
                                  !.preContext = contextStackCursor,
                                  !.preDidPerformWork = didPerformWorkStackCursor]
            /\ UNCHANGED <<heap, stateNode, tree>>

\* Mutant: the provider's frame starts from the empty object on every visit.
pushContextProvider_forgets(workInProgress) ==
    IF ~isContextProvider(workInProgress)
    THEN /\ path' = Append(path, Entry(workInProgress))
         /\ last' = [Call("pushContextProvider", workInProgress, undefined, FALSE)
                        EXCEPT !.preContext = contextStackCursor,
                               !.preDidPerformWork = didPerformWorkStackCursor]
         /\ UNCHANGED <<heap, contextStackCursor, didPerformWorkStackCursor,
                        previousContext, stateNode, tree>>
    ELSE /\ previousContext' = contextCurrent
         /\ contextStackCursor' = push(contextStackCursor, emptyObject, workInProgress)
         /\ didPerformWorkStackCursor' =
                push(didPerformWorkStackCursor, didPerformWorkCurrent, workInProgress)
         /\ path' = Append(MarkKids(path), Entry(workInProgress))
         /\ last' = [Call("pushContextProvider", workInProgress, undefined, FALSE)
                        EXCEPT !.ret = TRUE,
                               !.steps = <<pushed("context", emptyObject,
                                                  FALSE, workInProgress),
                                           pushed("didPerformWork", undefined,
                                                  didPerformWorkCurrent, workInProgress)>>,
                               !.preContext = contextStackCursor,
                               !.preDidPerformWork = didPerformWorkStackCursor]
         /\ UNCHANGED <<heap, stateNode, tree>>

pushContextProvider(workInProgress) ==
    IF ~isContextProvider(workInProgress)
    THEN /\ path' = Append(path, Entry(workInProgress))
         /\ last' = [Call("pushContextProvider", workInProgress, undefined, FALSE)
                        EXCEPT !.preContext = contextStackCursor,
                               !.preDidPerformWork = didPerformWorkStackCursor]
         /\ UNCHANGED <<heap, contextStackCursor, didPerformWorkStackCursor,
                        previousContext, stateNode, tree>>
    ELSE LET instance == stateNode[workInProgress]
             memoizedMergedChildContext ==
                 IF instance.exists /\ instance.memoizedMergedChildContext # undefined
                 THEN instance.memoizedMergedChildContext
                 ELSE emptyObject
         IN /\ previousContext' = contextCurrent
            /\ contextStackCursor' =
                   push(contextStackCursor, memoizedMergedChildContext, workInProgress)
            /\ didPerformWorkStackCursor' =
                   push(didPerformWorkStackCursor, didPerformWorkCurrent, workInProgress)
            /\ path' = Append(MarkKids(path), Entry(workInProgress))
            /\ last' = [Call("pushContextProvider", workInProgress, undefined, FALSE)
                           EXCEPT !.ret = TRUE,
                                  !.steps = <<pushed("context", memoizedMergedChildContext,
                                                     FALSE, workInProgress),
                                              pushed("didPerformWork", undefined,
                                                     didPerformWorkCurrent, workInProgress)>>,
                                  !.preContext = contextStackCursor,
                                  !.preDidPerformWork = didPerformWorkStackCursor]
            /\ UNCHANGED <<heap, stateNode, tree>>

\* Mutant: the provider's did-perform-work frame is left on its register.
popContextProvider_keepsFlag(fiber) ==
    /\ IF ~isContextProvider(fiber)
       THEN UNCHANGED <<contextStackCursor, didPerformWorkStackCursor>>
       ELSE /\ didPerformWorkStackCursor' = didPerformWorkStackCursor
            /\ contextStackCursor' = pop(contextStackCursor, fiber)
    /\ path' = SubSeq(path, 1, Len(path) - 1)
    /\ last' = [Call("popContextProvider", fiber, undefined, FALSE)
                   EXCEPT !.preContext = Top.preContext,
                          !.preDidPerformWork = Top.preDidPerformWork,
                          !.inv = Top.inv,
                          !.steps = IF isContextProvider(fiber)
                                   THEN <<popped("context", fiber)>>
                                   ELSE << >>]
    /\ UNCHANGED <<heap, previousContext, stateNode, tree>>

\* Mutant: the frames on top are popped whether or not the fiber is a provider.
popContextProvider_popsAny(fiber) ==
    /\ didPerformWorkStackCursor' = pop(didPerformWorkStackCursor, fiber)
    /\ contextStackCursor' = pop(contextStackCursor, fiber)
    /\ path' = SubSeq(path, 1, Len(path) - 1)
    /\ last' = [Call("popContextProvider", fiber, undefined, FALSE)
                   EXCEPT !.preContext = Top.preContext,
                          !.preDidPerformWork = Top.preDidPerformWork,
                          !.inv = Top.inv,
                          !.steps = <<popped("didPerformWork", fiber),
                                     popped("context", fiber)>>]
    /\ UNCHANGED <<heap, previousContext, stateNode, tree>>

\* Mutant: the context cursor is popped before the did-perform-work cursor.
popContextProvider_contextFirst(fiber) ==
    /\ IF ~isContextProvider(fiber)
       THEN UNCHANGED <<contextStackCursor, didPerformWorkStackCursor>>
       ELSE /\ contextStackCursor' = pop(contextStackCursor, fiber)
            /\ didPerformWorkStackCursor' = pop(didPerformWorkStackCursor, fiber)
    /\ path' = SubSeq(path, 1, Len(path) - 1)
    /\ last' = [Call("popContextProvider", fiber, undefined, FALSE)
                   EXCEPT !.preContext = Top.preContext,
                          !.preDidPerformWork = Top.preDidPerformWork,
                          !.inv = Top.inv,
                          !.steps = IF isContextProvider(fiber)
                                   THEN <<popped("context", fiber),
                                          popped("didPerformWork", fiber)>>
                                   ELSE << >>]
    /\ UNCHANGED <<heap, previousContext, stateNode, tree>>

popContextProvider(fiber) ==
    /\ IF ~isContextProvider(fiber)
       THEN UNCHANGED <<contextStackCursor, didPerformWorkStackCursor>>
       ELSE /\ didPerformWorkStackCursor' = pop(didPerformWorkStackCursor, fiber)
            /\ contextStackCursor' = pop(contextStackCursor, fiber)
    /\ path' = SubSeq(path, 1, Len(path) - 1)
    /\ last' = [Call("popContextProvider", fiber, undefined, FALSE)
                   EXCEPT !.preContext = Top.preContext,
                          !.preDidPerformWork = Top.preDidPerformWork,
                          !.inv = Top.inv,
                          !.steps = IF isContextProvider(fiber)
                                   THEN <<popped("didPerformWork", fiber),
                                          popped("context", fiber)>>
                                   ELSE << >>]
    /\ UNCHANGED <<heap, previousContext, stateNode, tree>>

----------------------------------------------------------------------------
(* Merging a provider's contribution *)

\* Mutant: {...childContext, ...parentContext}, the parent's keys win.
mergeContext_parentWins(parentEnv, childContext) ==
    [k \in (DOMAIN parentEnv) \cup (DOMAIN childContext) |->
        IF k \in DOMAIN parentEnv THEN parentEnv[k] ELSE childContext[k]]

mergeContext(parentEnv, childContext) ==
    [k \in (DOMAIN parentEnv) \cup (DOMAIN childContext) |->
        IF k \in DOMAIN childContext THEN childContext[k] ELSE parentEnv[k]]

\* Mutant: the keys of the contribution are not checked against childContextTypes.
processChildContext_anyKey(fiber, parentContext, childContext) ==
    IF ~hasGetChildContext(fiber)
    THEN [ok |-> TRUE, called |-> FALSE, result |-> parentContext, heap |-> heap]
    ELSE [ok |-> TRUE, called |-> TRUE, result |-> Len(heap) + 1,
          heap |-> Append(heap, mergeContext(Obj(parentContext), childContext))]

\* childContext is what instance.getChildContext() returns when it is called.
\* The outcome: ok (no invariant failed), called (the callback was invoked),
\* result (the reference returned) and the heap afterwards.
processChildContext(fiber, parentContext, childContext) ==
    IF ~hasGetChildContext(fiber)
    THEN [ok |-> TRUE, called |-> FALSE, result |-> parentContext, heap |-> heap]
    ELSE IF \E contextKey \in DOMAIN childContext :
                contextKey \notin childContextTypes(fiber)
    THEN [ok |-> FALSE, called |-> TRUE, result |-> undefined, heap |-> heap]
    ELSE [ok |-> TRUE, called |-> TRUE, result |-> Len(heap) + 1,
          heap |-> Append(heap, mergeContext(Obj(parentContext), childContext))]

ChildContexts(fiber) ==
    IF hasGetChildContext(fiber) THEN getChildContext(fiber) ELSE {EmptyEnv}

\* Mutant: the merge is recomputed and the frame replaced whatever didChange is.
invalidateContextProvider_alwaysMerges(workInProgress, didChange, childContext) ==
    LET instance == stateNode[workInProgress]
        call == Call("invalidateContextProvider", workInProgress, previousContext, didChange)
    IN IF ~instance.exists
       THEN /\ last' = [call EXCEPT !.ok = FALSE]
            /\ UNCHANGED <<heap, contextStackCursor, didPerformWorkStackCursor,
                           previousContext, stateNode, tree, path>>
       ELSE LET out == processChildContext(workInProgress, previousContext, childContext)
                mergedContext == out.result
            IN IF ~out.ok
               THEN /\ last' = [call EXCEPT !.ok = FALSE, !.called = out.called]
                    /\ UNCHANGED <<heap, contextStackCursor, didPerformWorkStackCursor,
                                   previousContext, stateNode, tree, path>>
               ELSE /\ Len(out.heap) <= MaxHeap
                    /\ heap' = out.heap
                    /\ stateNode' = [stateNode EXCEPT
                           ![workInProgress].memoizedMergedChildContext = mergedContext]
                    /\ didPerformWorkStackCursor' =
                           push(pop(didPerformWorkStackCursor, workInProgress),
                                didChange, workInProgress)
                    /\ contextStackCursor' =
                           push(pop(contextStackCursor, workInProgress),
                                mergedContext, workInProgress)
                    /\ path' = [path EXCEPT
                           ![Len(path)].inv = IF didChange THEN "true" ELSE "false",
                           ![Len(path)].republished =
                               (didChange \/ path[Len(path)].republished),
                           ![Len(path)].late = path[Len(path)].kids,
                           ![Len(path)].contribution =
                               IF out.called THEN childContext ELSE EmptyEnv]
                    /\ last' = [call EXCEPT
                           !.res = mergedContext, !.called = out.called,
                           !.steps =
                               <<popped("didPerformWork", workInProgress),
                                 popped("context", workInProgress),
                                 pushed("context", mergedContext, FALSE, workInProgress),
                                 pushed("didPerformWork", undefined, didChange,
                                        workInProgress)>>]
                    /\ UNCHANGED <<previousContext, tree>>

invalidateContextProvider(workInProgress, didChange, childContext) ==
    LET instance == stateNode[workInProgress]
        call == Call("invalidateContextProvider", workInProgress, previousContext, didChange)
    IN IF ~instance.exists
       THEN /\ last' = [call EXCEPT !.ok = FALSE]
            /\ UNCHANGED <<heap, contextStackCursor, didPerformWorkStackCursor,
                           previousContext, stateNode, tree, path>>
       ELSE IF didChange
       THEN LET out == processChildContext(workInProgress, previousContext, childContext)
                mergedContext == out.result
            IN IF ~out.ok
               THEN /\ last' = [call EXCEPT !.ok = FALSE, !.called = out.called]
                    /\ UNCHANGED <<heap, contextStackCursor, didPerformWorkStackCursor,
                                   previousContext, stateNode, tree, path>>
               ELSE /\ Len(out.heap) <= MaxHeap
                    /\ heap' = out.heap
                    /\ stateNode' = [stateNode EXCEPT
                           ![workInProgress].memoizedMergedChildContext = mergedContext]
                    /\ didPerformWorkStackCursor' =
                           push(pop(didPerformWorkStackCursor, workInProgress),
                                didChange, workInProgress)
                    /\ contextStackCursor' =
                           push(pop(contextStackCursor, workInProgress),
                                mergedContext, workInProgress)
                    /\ path' = [path EXCEPT
                           ![Len(path)].inv = "true",
                           ![Len(path)].republished = TRUE,
                           ![Len(path)].late = path[Len(path)].kids,
                           ![Len(path)].contribution =
                               IF out.called THEN childContext ELSE EmptyEnv]
                    /\ last' = [call EXCEPT
                           !.res = mergedContext, !.called = out.called,
                           !.steps =
                               <<popped("didPerformWork", workInProgress),
                                 popped("context", workInProgress),
                                 pushed("context", mergedContext, FALSE, workInProgress),
                                 pushed("didPerformWork", undefined, didChange,
                                        workInProgress)>>]
                    /\ UNCHANGED <<previousContext, tree>>
       ELSE /\ didPerformWorkStackCursor' =
                   push(pop(didPerformWorkStackCursor, workInProgress),
                        didChange, workInProgress)
            /\ path' = [path EXCEPT ![Len(path)].inv = "false"]
            /\ last' = [call EXCEPT
                   !.steps = <<popped("didPerformWork", workInProgress),
                               pushed("didPerformWork", undefined, didChange,
                                      workInProgress)>>]
            /\ UNCHANGED <<heap, contextStackCursor, previousContext, stateNode, tree>>

----------------------------------------------------------------------------
(* Masking and its memo *)

maskContext(fiber, unmaskedEnv) ==
    [key \in contextTypes(fiber) |-> Get(unmaskedEnv, key)]

cacheContext(workInProgress, unmaskedContext, maskedContext) ==
    [stateNode EXCEPT
        ![workInProgress].memoizedUnmaskedChildContext = unmaskedContext,
        ![workInProgress].memoizedMaskedChildContext = maskedContext]

\* Mutant: the memo is never consulted; every call builds a new object.
getMaskedContext_noMemo(workInProgress, unmaskedContext) ==
    LET instance == stateNode[workInProgress]
        call == Call("getMaskedContext", workInProgress, unmaskedContext, FALSE)
        context == Len(heap) + 1
    IN IF ~hasContextTypes(workInProgress)
       THEN /\ last' = [call EXCEPT !.res = emptyObject]
            /\ UNCHANGED <<heap, stateNode>>
       ELSE /\ Len(heap) < MaxHeap
            /\ heap' = Append(heap, maskContext(workInProgress, Obj(unmaskedContext)))
            /\ stateNode' = IF instance.exists
                            THEN cacheContext(workInProgress, unmaskedContext, context)
                            ELSE stateNode
            /\ last' = [call EXCEPT !.res = context]

\* Mutant: a type without contextTypes is masked like one declaring no key.
getMaskedContext_masksAll(workInProgress, unmaskedContext) ==
    LET instance == stateNode[workInProgress]
        call == Call("getMaskedContext", workInProgress, unmaskedContext, FALSE)
        context == Len(heap) + 1
    IN IF instance.exists /\ instance.memoizedUnmaskedChildContext = unmaskedContext
       THEN /\ last' = [call EXCEPT !.res = instance.memoizedMaskedChildContext]
            /\ UNCHANGED <<heap, stateNode>>
       ELSE /\ Len(heap) < MaxHeap
            /\ heap' = Append(heap, maskContext(workInProgress, Obj(unmaskedContext)))
            /\ stateNode' = IF instance.exists
                            THEN cacheContext(workInProgress, unmaskedContext, context)
                            ELSE stateNode
            /\ last' = [call EXCEPT !.res = context]

\* Mutant: the memoized masked context is served whatever object it was made from.
getMaskedContext_staleMemo(workInProgress, unmaskedContext) ==
    LET instance == stateNode[workInProgress]
        call == Call("getMaskedContext", workInProgress, unmaskedContext, FALSE)
        context == Len(heap) + 1
    IN IF ~hasContextTypes(workInProgress)
       THEN /\ last' = [call EXCEPT !.res = emptyObject]
            /\ UNCHANGED <<heap, stateNode>>
       ELSE IF instance.exists /\ instance.memoizedUnmaskedChildContext # undefined
       THEN /\ last' = [call EXCEPT !.res = instance.memoizedMaskedChildContext]
            /\ UNCHANGED <<heap, stateNode>>
       ELSE /\ Len(heap) < MaxHeap
            /\ heap' = Append(heap, maskContext(workInProgress, Obj(unmaskedContext)))
            /\ stateNode' = IF instance.exists
                            THEN cacheContext(workInProgress, unmaskedContext, context)
                            ELSE stateNode
            /\ last' = [call EXCEPT !.res = context]

getMaskedContext(workInProgress, unmaskedContext) ==
    LET instance == stateNode[workInProgress]
        call == Call("getMaskedContext", workInProgress, unmaskedContext, FALSE)
        context == Len(heap) + 1
    IN IF ~hasContextTypes(workInProgress)
       THEN /\ last' = [call EXCEPT !.res = emptyObject]
            /\ UNCHANGED <<heap, stateNode>>
       ELSE IF instance.exists /\ instance.memoizedUnmaskedChildContext = unmaskedContext
       THEN /\ last' = [call EXCEPT !.res = instance.memoizedMaskedChildContext]
            /\ UNCHANGED <<heap, stateNode>>
       ELSE /\ Len(heap) < MaxHeap
            /\ heap' = Append(heap, maskContext(workInProgress, Obj(unmaskedContext)))
            /\ stateNode' = IF instance.exists
                            THEN cacheContext(workInProgress, unmaskedContext, context)
                            ELSE stateNode
            /\ last' = [call EXCEPT !.res = context]

----------------------------------------------------------------------------
(* The traversal: which call is made when *)

\* beginWork on the host root, at the start of a render pass
EnterRoot ==
    /\ path = << >>
    /\ \E context \in RootContexts, didChange \in BOOLEAN :
           pushTopLevelContextObject(Root, context, didChange)

\* completeWork on the host root
ExitRoot ==
    /\ path # << >>
    /\ Top.node = Root
    /\ popTopLevelContextObject(Root)

\* beginWork on a child of the fiber being worked on
Enter ==
    /\ path # << >>
    /\ \E fiber \in tree :
           /\ \A i \in 1 .. Len(path) : Rank(path[i].node) < Rank(fiber)
           /\ pushContextProvider(fiber)

\* completeWork on the fiber being worked on
Exit ==
    /\ path # << >>
    /\ Top.node # Root
    /\ popContextProvider(Top.node)

\* the class instance of the fiber being worked on is constructed
Construct ==
    /\ path # << >>
    /\ tag(Top.node) = ClassComponent
    /\ ~stateNode[Top.node].exists
    /\ stateNode' = [stateNode EXCEPT ![Top.node].exists = TRUE]
    /\ last' = NoCall
    /\ UNCHANGED <<heap, contextStackCursor, didPerformWorkStackCursor,
                   previousContext, tree, path>>

\* finishClassComponent on a provider: it rendered (true) or bailed out (false)
Invalidate ==
    /\ path # << >>
    /\ isContextProvider(Top.node)
    /\ \E didChange \in BOOLEAN, childContext \in ChildContexts(Top.node) :
           invalidateContextProvider(Top.node, didChange, childContext)

\* the fiber being worked on reads its masked context
Mask ==
    /\ path # << >>
    /\ Top.node # Root
    /\ \E unmaskedContext \in {getUnmaskedContext(Top.node), contextCurrent} :
           getMaskedContext(Top.node, unmaskedContext)
    /\ UNCHANGED <<contextStackCursor, didPerformWorkStackCursor, previousContext,
                   tree, path>>

InitOn(trees) ==
    /\ heap = << [color |-> "blue", size |-> "small"] >>
    /\ contextStackCursor = createCursor
    /\ didPerformWorkStackCursor = createCursor
    /\ previousContext = emptyObject
    /\ stateNode = [fiber \in Components |-> NoInstance]
    /\ tree \in trees
    /\ path = << >>
    /\ last = NoCall

Init == InitOn(Trees)

Next ==
    \/ EnterRoot
    \/ ExitRoot
    \/ Enter
    \/ Exit
    \/ Construct
    \/ Invalidate
    \/ Mask

Spec == Init /\ [][Next]_vars

\* The demo's components: MessageList and Test around Button
InitDemo == InitOn(DemoTrees)

SpecDemo == InitDemo /\ [][Next]_vars

\* A render pass begun while frames of an earlier one are still on the stack
ReenterRoot ==
    /\ path # << >>
    /\ Cardinality({i \in 1 .. Len(path) : path[i].node = Root}) < MaxRoots
    /\ \E context \in RootContexts, didChange \in BOOLEAN :
           pushTopLevelContextObject(Root, context, didChange)

NextRoot ==
    \/ Next
    \/ ReenterRoot

\* Re-entry is explored on the trees made of one provider and one consumer.
InitRoot == InitOn({{"MessageList", "Button"}})

SpecRoot == InitRoot /\ [][NextRoot]_vars

----------------------------------------------------------------------------
(* The ancestor walk of findCurrentUnmaskedContext *)

\* chain lists fiber, fiber.return, fiber.return.return, ... up to the fiber
\* whose return is null; context is the host root's stateNode.context.
RECURSIVE walkReturn(_, _, _)
walkReturn(chain, i, context) ==
    LET node == chain[i]
    IN IF tag(node) = HostRoot
       THEN [ok |-> TRUE, result |-> context]
       ELSE IF isContextProvider(node)
       THEN [ok |-> TRUE, result |-> stateNode[node].memoizedMergedChildContext]
       ELSE IF i = Len(chain)
       THEN [ok |-> FALSE, result |-> undefined]
       ELSE walkReturn(chain, i + 1, context)

\* Mutant: the walk goes on to the outermost provider of the chain.
findCurrentUnmaskedContext_outermost(fiber, isFiberMounted, chain, context) ==
    LET providers == {i \in 1 .. Len(chain) : isContextProvider(chain[i])}
        outer == CHOOSE i \in providers : \A j \in providers : j <= i
    IN IF ~(isFiberMounted /\ tag(fiber) = ClassComponent)
       THEN [ok |-> FALSE, result |-> undefined]
       ELSE IF providers # {}
       THEN [ok |-> TRUE, result |-> stateNode[chain[outer]].memoizedMergedChildContext]
       ELSE walkReturn(chain, 1, context)

\* Mutant: the walk starts without checking that the fiber is a mounted class.
findCurrentUnmaskedContext_unchecked(fiber, isFiberMounted, chain, context) ==
    walkReturn(chain, 1, context)

findCurrentUnmaskedContext(fiber, isFiberMounted, chain, context) ==
    IF ~(isFiberMounted /\ tag(fiber) = ClassComponent)
    THEN [ok |-> FALSE, result |-> undefined]
    ELSE walkReturn(chain, 1, context)

\* The fibers of S from the innermost to the outermost
RECURSIVE Descending(_)
Descending(S) ==
    IF S = {} THEN << >>
    ELSE LET f == CHOOSE f \in S : \A g \in S : Rank(g) <= Rank(f)
         IN <<f>> \o Descending(S \ {f})

\* The return chains a fiber of the tree may have: up to the host root, or
\* cut off below it (a detached subtree).
ReturnChains ==
    {Descending(S) \o <<Root>> : S \in SUBSET tree}
        \cup {Descending(S) : S \in (SUBSET tree) \ {{}}}

\* renderSubtreeIntoContainer asks for the context of a parent component,
\* between render passes.  A mounted fiber and its ancestors have instances.
Find ==
    /\ path = << >>
    /\ \E chain \in ReturnChains, isFiberMounted \in BOOLEAN, context \in RootContexts :
           /\ isFiberMounted =>
                  \A i \in 1 .. Len(chain) :
                      tag(chain[i]) = ClassComponent => stateNode[chain[i]].exists
           /\ LET out == findCurrentUnmaskedContext(chain[1], isFiberMounted, chain, context)
              IN last' = [Call("findCurrentUnmaskedContext", chain[1], context, isFiberMounted)
                             EXCEPT !.ok = out.ok, !.res = out.result, !.chain = chain]
    /\ UNCHANGED <<heap, contextStackCursor, didPerformWorkStackCursor,
                   previousContext, stateNode, tree, path>>

NextFind ==
    \/ EnterRoot
    \/ ExitRoot
    \/ Enter
    \/ Exit
    \/ Construct
    \/ Invalidate
    \/ Find

InitFind == InitOn(DemoTrees)

SpecFind == InitFind /\ [][NextFind]_vars

----------------------------------------------------------------------------
(* Vocabulary of the properties *)

Owners(cursor) == [i \in 1 .. Len(cursor) |-> cursor[i].owner]
PathNodes == [i \in 1 .. Len(path) |-> path[i].node]
OwnsFrame(fiber) == fiber = Root \/ isContextProvider(fiber)

\* The did-perform-work flag of the frame a live fiber owns
FlagOf(fiber) ==
    LET j == CHOOSE j \in 1 .. Len(didPerformWorkStackCursor) :
                 didPerformWorkStackCursor[j].owner = fiber
    IN didPerformWorkStackCursor[j].value

\* The flag that was current when the i-th live fiber was entered
Inherited(i) == current(path[i].preDidPerformWork, FALSE)

ProviderEntries == {i \in 1 .. Len(path) : isContextProvider(path[i].node)}

\* The value of key k a reader below path[1 .. n] is meant to see: that of the
\* nearest live provider whose contribution has k, else the root context's.
RECURSIVE Nearest(_, _)
Nearest(n, k) ==
    IF n = 0 THEN "undefined"
    ELSE IF path[n].node = Root
         THEN Get(Obj(contextStackCursor[1].value), k)
    ELSE IF isContextProvider(path[n].node) /\ k \in DOMAIN path[n].contribution
         THEN path[n].contribution[k]
    ELSE Nearest(n - 1, k)

\* Every live provider above the reader published (invalidate with true)
\* before any provider below it was entered.
PublishedInOrder(n) ==
    \A i \in ProviderEntries :
        i <= n => path[i].inv = "true" /\ ~path[i].late

----------------------------------------------------------------------------
(* C1 *)

\* C1: when a provider that was pushed and invalidated with didChange = true
\* is popped, both registers have exactly the frames (hence the depth and the
\* current value) they had immediately before it was pushed.
C1_RoundTrip ==
    (last.op = "popContextProvider" /\ isContextProvider(last.node)
        /\ last.inv = "true")
    => /\ contextStackCursor = last.preContext
       /\ didPerformWorkStackCursor = last.preDidPerformWork
       /\ contextCurrent = current(last.preContext, emptyObject)
       /\ didPerformWorkCurrent = current(last.preDidPerformWork, FALSE)

C1_Witness ==
    /\ last.op = "popContextProvider"
    /\ isContextProvider(last.node)
    /\ last.inv = "true"
    /\ Len(contextStackCursor) >= 2

----------------------------------------------------------------------------
(* C2 *)

\* C2: right after pushContextProvider(p), getUnmaskedContext(p) is the object
\* that was the context register's current value before the push; for a
\* non-provider it is the register's current value.
C2_SelfExclusion ==
    last.op = "pushContextProvider"
    => /\ getUnmaskedContext(last.node) = current(last.preContext, emptyObject)
       /\ ~isContextProvider(last.node)
              => getUnmaskedContext(last.node) = contextCurrent

C2_Witness ==
    /\ last.op = "pushContextProvider"
    /\ isContextProvider(last.node)
    /\ contextCurrent # current(last.preContext, emptyObject)
    /\ getUnmaskedContext(last.node) = current(last.preContext, emptyObject)

----------------------------------------------------------------------------
(* C3 *)

\* C3 as stated: for every node, two successive getMaskedContext(n, E) calls
\* with the same E return the same object.
C3_MemoEveryNode ==
    (last.op = "getMaskedContext" /\ last.rep) => last.res = last.prevRes

\* C3 amended: two successive getMaskedContext(n, E) calls with the same E
\* return the same object when n has an instance or declares no contextTypes.
C3_Memo ==
    (last.op = "getMaskedContext" /\ last.rep
        /\ (stateNode[last.node].exists \/ ~hasContextTypes(last.node)))
    => last.res = last.prevRes

C3_Witness ==
    /\ last.op = "getMaskedContext"
    /\ last.rep
    /\ stateNode[last.node].exists
    /\ hasContextTypes(last.node)
    /\ last.res = last.prevRes
    /\ last.res # emptyObject

----------------------------------------------------------------------------
(* C4 *)

\* C4: pushTopLevelContextObject fails, pushing nothing, when a root frame is
\* already on the context register; otherwise it pushes the context and the
\* flag it was given.
C4_RootGuard ==
    last.op = "pushTopLevelContextObject"
    => IF \E i \in 1 .. Len(last.preContext) : last.preContext[i].owner = Root
       THEN /\ ~last.ok
            /\ contextStackCursor = last.preContext
            /\ didPerformWorkStackCursor = last.preDidPerformWork
       ELSE /\ last.ok
            /\ contextStackCursor = push(last.preContext, last.env, last.node)
            /\ didPerformWorkStackCursor =
                   push(last.preDidPerformWork, last.flag, last.node)

----------------------------------------------------------------------------
(* C5 *)

\* C5: with the root pushed with didChange = false, hasContextChanged() is
\* true while the innermost live provider is one invalidated with true; once
\* that provider is popped it is the flag that was current before the push,
\* which is false when no live provider below republished.
C5_ChangedInsideOnly ==
    (didPerformWorkStackCursor # << >>
        /\ didPerformWorkStackCursor[1].owner = Root
        /\ didPerformWorkStackCursor[1].value = FALSE)
    => /\ \A i \in ProviderEntries :
              ((\A j \in ProviderEntries : j <= i) /\ path[i].inv = "true")
              => hasContextChanged = TRUE
       /\ (last.op = "popContextProvider" /\ isContextProvider(last.node)
              /\ last.inv = "true")
          => /\ hasContextChanged = current(last.preDidPerformWork, FALSE)
             /\ (\A i \in ProviderEntries : path[i].inv # "true")
                    => hasContextChanged = FALSE

C5_Witness ==
    /\ didPerformWorkStackCursor # << >>
    /\ didPerformWorkStackCursor[1].owner = Root
    /\ didPerformWorkStackCursor[1].value = FALSE
    /\ last.op = "popContextProvider"
    /\ isContextProvider(last.node)
    /\ last.inv = "true"
    /\ hasContextChanged = FALSE

----------------------------------------------------------------------------
(* C6 *)

\* C6: when every live provider published before its descendants were entered,
\* a consumer that masks its unmasked context reads, for each key it declares,
\* the value of the nearest enclosing live provider contributing that key
\* (the root context's when there is none).
C6_NearestProvider ==
    (/\ last.op = "getMaskedContext"
     /\ hasContextTypes(last.node)
     /\ path # << >>
     /\ Top.node = last.node
     /\ last.env = getUnmaskedContext(last.node)
     /\ PublishedInOrder(Len(path) - 1)
     /\ ~Top.kids)
    => \A k \in contextTypes(last.node) :
           /\ k \in DOMAIN Obj(last.res)
           /\ Obj(last.res)[k] = Nearest(Len(path) - 1, k)

C6_Witness ==
    /\ last.op = "getMaskedContext"
    /\ PathNodes = <<Root, "MessageList", "Test", "Button">>
    /\ PublishedInOrder(3)
    /\ Obj(last.res) = [color |-> "red"]

----------------------------------------------------------------------------
(* C7 *)

\* C7: invalidateContextProvider(p, false) never calls getChildContext, leaves
\* the instances' memo fields and the heap as they were, leaves the context
\* register unchanged and the did-change register at the same depth, and
\* leaves false as the current did-change flag; so does every repetition.
C7_InvalidateFalse ==
    [][(last'.op = "invalidateContextProvider" /\ ~last'.flag /\ last'.ok)
       => /\ ~last'.called
          /\ stateNode' = stateNode
          /\ heap' = heap
          /\ contextStackCursor' = contextStackCursor
          /\ Len(didPerformWorkStackCursor') = Len(didPerformWorkStackCursor)
          /\ Owners(didPerformWorkStackCursor') = Owners(didPerformWorkStackCursor)
          /\ current(didPerformWorkStackCursor', FALSE) = FALSE]_vars

C7_Witness ==
    /\ last.op = "invalidateContextProvider"
    /\ ~last.flag
    /\ last.ok
    /\ last.rep
    /\ stateNode[last.node].memoizedMergedChildContext # undefined
    /\ contextCurrent # emptyObject

----------------------------------------------------------------------------
(* C8 *)

\* C8 as stated: a live provider's flag is the one inherited at its push for
\* as long as it has not been invalidated with didChange = true.
C8_InheritedUntilTrue ==
    \A i \in ProviderEntries :
        ~path[i].republished => FlagOf(path[i].node) = Inherited(i)

\* C8 amended: a live provider's flag is the inherited one until its first
\* invalidate; afterwards it is the didChange of its last invalidate (false
\* after invalidate(p, false), whatever was inherited), so a flag that is true
\* where false was inherited comes only from invalidate(p, true).
C8_Inherited ==
    \A i \in ProviderEntries :
        /\ path[i].inv = "none" => FlagOf(path[i].node) = Inherited(i)
        /\ path[i].inv = "false" => FlagOf(path[i].node) = FALSE
        /\ path[i].inv = "true" => FlagOf(path[i].node) = TRUE
        /\ (FlagOf(path[i].node) /\ ~Inherited(i)) => path[i].inv = "true"

C8_Witness ==
    /\ last.op = "invalidateContextProvider"
    /\ ~last.flag
    /\ last.ok
    /\ path # << >>
    /\ Inherited(Len(path))
    /\ ~FlagOf(Top.node)

----------------------------------------------------------------------------
(* C9 *)

\* C9 as stated: every live fiber owns exactly one frame on each register, the
\* owners run from ancestor to descendant, the registers are equally deep, and
\* with no live fiber both are empty and read the defaults.
C9_EveryLiveFiberFramed ==
    /\ Owners(contextStackCursor) = PathNodes
    /\ Owners(didPerformWorkStackCursor) = PathNodes
    /\ Len(contextStackCursor) = Len(didPerformWorkStackCursor)
    /\ path = << >> => /\ contextStackCursor = << >>
                       /\ didPerformWorkStackCursor = << >>
                       /\ contextCurrent = emptyObject
                       /\ hasContextChanged = FALSE

\* C9 amended: the live fibers that are the root or a provider each own
\* exactly one frame on each register (a live non-provider owns none), the
\* owners run from ancestor to descendant, the registers are equally deep, and
\* with no live fiber both are empty and read the defaults.
C9_FrameNesting ==
    /\ Owners(contextStackCursor) = SelectSeq(PathNodes, OwnsFrame)
    /\ Owners(didPerformWorkStackCursor) = SelectSeq(PathNodes, OwnsFrame)
    /\ Len(contextStackCursor) = Len(didPerformWorkStackCursor)
    /\ \A i, j \in 1 .. Len(path) : path[i].node = path[j].node => i = j
    /\ path = << >> => /\ contextStackCursor = << >>
                       /\ didPerformWorkStackCursor = << >>
                       /\ contextCurrent = emptyObject
                       /\ hasContextChanged = FALSE

C9_Witness ==
    /\ Len(path) >= 3
    /\ \E i \in 1 .. Len(path) : ~OwnsFrame(path[i].node)
    /\ Len(contextStackCursor) >= 2
    /\ Len(contextStackCursor) < Len(path)

----------------------------------------------------------------------------
(* C10 *)

\* C10: the object invalidate obtains from processChildContext(p, parent) has
\* the keys of parent and of the contribution, the contribution's value for
\* each key it has and parent's for every other; a provider whose instance has
\* no getChildContext gets parent itself, and the call does not fail.
C10_ShallowMerge ==
    (last.op = "invalidateContextProvider" /\ last.flag
        /\ stateNode[last.node].exists /\ path # << >> /\ Top.node = last.node)
    => IF hasGetChildContext(last.node)
       THEN last.ok =>
            LET parent == Obj(last.env)
                own == Top.contribution
                merged == Obj(last.res)
            IN /\ last.called
               /\ DOMAIN merged = (DOMAIN parent) \cup (DOMAIN own)
               /\ \A k \in DOMAIN own : merged[k] = own[k]
               /\ \A k \in (DOMAIN parent) \ (DOMAIN own) : merged[k] = parent[k]
       ELSE /\ last.ok
            /\ ~last.called
            /\ last.res = last.env

C10_Witness ==
    /\ last.op = "invalidateContextProvider"
    /\ last.flag
    /\ last.ok
    /\ last.called
    /\ Obj(last.env) = [color |-> "blue", size |-> "small"]
    /\ Obj(last.res) = [color |-> "purple", size |-> "small"]

----------------------------------------------------------------------------
(* C11 *)

\* The first provider met walking the chain from the fiber itself upwards
NearestProviderIn(chain) ==
    LET providers == {i \in 1 .. Len(chain) : isContextProvider(chain[i])}
    IN IF providers = {} THEN 0
       ELSE CHOOSE i \in providers : \A j \in providers : i <= j

\* C11: for a mounted class component whose return chain reaches the host
\* root, findCurrentUnmaskedContext succeeds and returns the remembered merged
\* context of the nearest provider on the chain (the fiber itself included,
\* never an outer one), and the root's stored context when the chain has no
\* provider.
C11_NearestRemembered ==
    (/\ last.op = "findCurrentUnmaskedContext"
     /\ last.flag
     /\ tag(last.node) = ClassComponent
     /\ last.chain[Len(last.chain)] = Root)
    => /\ last.ok
       /\ LET n == NearestProviderIn(last.chain)
          IN IF n = 0
             THEN last.res = last.env
             ELSE last.res = stateNode[last.chain[n]].memoizedMergedChildContext

C11_Witness ==
    /\ last.op = "findCurrentUnmaskedContext"
    /\ last.flag
    /\ last.chain = <<"Button", "Test", "MessageList", Root>>
    /\ last.res = stateNode["Test"].memoizedMergedChildContext
    /\ last.res # undefined
    /\ stateNode["MessageList"].memoizedMergedChildContext # undefined
    /\ last.res # stateNode["MessageList"].memoizedMergedChildContext

----------------------------------------------------------------------------
(* C12 *)

\* C12 as stated: findCurrentUnmaskedContext fails exactly when the fiber is
\* not mounted, is not a class component, or its return chain ends below the
\* host root; a failing call returns nothing and changes nothing.
C12_FailsWhenDetached ==
    [][last'.op = "findCurrentUnmaskedContext"
       => /\ ~last'.ok <=> \/ ~last'.flag
                           \/ tag(last'.node) # ClassComponent
                           \/ last'.chain[Len(last'.chain)] # Root
          /\ ~last'.ok =>
                 /\ last'.res = undefined
                 /\ UNCHANGED <<heap, contextStackCursor, didPerformWorkStackCursor,
                                previousContext, stateNode>>]_vars

\* C12 amended: it fails exactly when the fiber is not mounted, is not a class
\* component, or the chain ends below the host root without holding any
\* provider (a provider met first is answered from, broken chain or not); a
\* failing call returns nothing and changes nothing.
C12_Fails ==
    [][last'.op = "findCurrentUnmaskedContext"
       => /\ ~last'.ok <=> \/ ~last'.flag
                           \/ tag(last'.node) # ClassComponent
                           \/ /\ last'.chain[Len(last'.chain)] # Root
                              /\ NearestProviderIn(last'.chain) = 0
          /\ ~last'.ok =>
                 /\ last'.res = undefined
                 /\ UNCHANGED <<heap, contextStackCursor, didPerformWorkStackCursor,
                                previousContext, stateNode>>]_vars

C12_Witness ==
    /\ last.op = "findCurrentUnmaskedContext"
    /\ last.flag
    /\ last.chain = <<"Button">>
    /\ ~last.ok
    /\ last.res = undefined
    /\ stateNode["Button"].exists

----------------------------------------------------------------------------
(* C13 *)

\* C13: for a fiber that is not a provider, pushContextProvider returns false
\* and popContextProvider returns, and neither call changes the two registers,
\* previousContext, any instance or any object.
C13_NonProviderNoOp ==
    [][(last'.op \in {"pushContextProvider", "popContextProvider"}
            /\ ~isContextProvider(last'.node))
       => /\ ~last'.ret
          /\ last'.ok
          /\ UNCHANGED <<contextStackCursor, didPerformWorkStackCursor,
                         previousContext, stateNode, heap>>]_vars

C13_Witness ==
    /\ last.op = "popContextProvider"
    /\ last.node = "Button"
    /\ stateNode["Button"].exists
    /\ stateNode["Button"].memoizedMaskedChildContext # undefined
    /\ Len(contextStackCursor) >= 2
    /\ previousContext # emptyObject

----------------------------------------------------------------------------
(* C14 *)

\* C14: for a fiber whose type has no contextTypes, getMaskedContext returns
\* the canonical empty object whatever it is given, and the memo fields of
\* such a fiber's instance are never written.
C14_EmptyForNonConsumer ==
    /\ (last.op = "getMaskedContext" /\ ~hasContextTypes(last.node))
           => last.res = emptyObject
    /\ \A fiber \in Components :
           ~hasContextTypes(fiber)
           => /\ stateNode[fiber].memoizedUnmaskedChildContext = undefined
              /\ stateNode[fiber].memoizedMaskedChildContext = undefined

C14_Witness ==
    /\ last.op = "getMaskedContext"
    /\ ~hasContextTypes(last.node)
    /\ stateNode[last.node].exists
    /\ last.rep
    /\ last.env # emptyObject
    /\ Obj(last.env) # EmptyEnv
    /\ last.res = emptyObject

----------------------------------------------------------------------------
(* C15 *)

\* The context that was current just before the fiber being worked on was entered
BeforeOwnFrame == current(Top.preContext, emptyObject)

----------------------------------------------------------------------------
(* C16 *)

\* The merged context an instance remembers, the empty object when it has none
Remembered(fiber) ==
    IF stateNode[fiber].exists
           /\ stateNode[fiber].memoizedMergedChildContext # undefined
    THEN stateNode[fiber].memoizedMergedChildContext
    ELSE emptyObject

----------------------------------------------------------------------------
(* C17 *)

\* The frames of the two registers as one stack: frame by frame, the context
\* register's below the did-change register's.
Merged(context, didPerformWork) ==
    [i \in 1 .. 2 * Len(context) |->
        IF i % 2 = 1
        THEN [cursor |-> "context", owner |-> context[(i + 1) \div 2].owner,
              value |-> context[(i + 1) \div 2].value, flag |-> FALSE]
        ELSE [cursor |-> "didPerformWork", owner |-> didPerformWork[i \div 2].owner,
              value |-> undefined, flag |-> didPerformWork[i \div 2].value]]

\* The steps run one by one on a single stack; a pop is in order when the
\* frame on top is a frame of the register being popped.
RECURSIVE Replay(_, _)
Replay(steps, stack) ==
    IF steps = << >> THEN [inOrder |-> TRUE, stack |-> stack]
    ELSE LET step == Head(steps)
         IN IF step.do = "push"
            THEN Replay(Tail(steps),
                        Append(stack, [cursor |-> step.cursor, owner |-> step.owner,
                                       value |-> step.value, flag |-> step.flag]))
            ELSE IF stack = << >> \/ stack[Len(stack)].cursor # step.cursor
            THEN [inOrder |-> FALSE, stack |-> stack]
            ELSE Replay(Tail(steps), SubSeq(stack, 1, Len(stack) - 1))

\* C17: the pushes and pops every operation makes, taken in program order on
\* the two registers together, form one LIFO sequence: each pop takes the
\* frame pushed last among all frames not yet popped, and what is left is,
\* frame by frame, a context frame below its did-change frame.
C17_UnwindOrder ==
    [][LET run == Replay(last'.steps, Merged(contextStackCursor, didPerformWorkStackCursor))
       IN /\ Len(contextStackCursor) = Len(didPerformWorkStackCursor)
          /\ run.inOrder
          /\ Len(contextStackCursor') = Len(didPerformWorkStackCursor')
          /\ run.stack = Merged(contextStackCursor', didPerformWorkStackCursor')]_vars

C17_Witness ==
    /\ last.op = "invalidateContextProvider"
    /\ last.flag
    /\ last.ok
    /\ Len(last.steps) = 4
    /\ Len(contextStackCursor) >= 3
    /\ last.rep

----------------------------------------------------------------------------
(* C18 *)

\* C18: invalidateContextProvider fails when the provider has no instance,
\* and with didChange = true fails when getChildContext returns a key that is
\* not in childContextTypes (a call that succeeds has an instance and a
\* contribution of declared keys only); a failing call leaves both registers,
\* previousContext, every instance and every object as they were.
C18_InvalidateAtomic ==
    [][last'.op = "invalidateContextProvider"
       => /\ ~stateNode[last'.node].exists => ~last'.ok
          /\ last'.ok
             => /\ stateNode[last'.node].exists
                /\ last'.flag
                   => DOMAIN path'[Len(path')].contribution
                          \subseteq childContextTypes(last'.node)
          /\ ~last'.ok
             => /\ \/ ~stateNode[last'.node].exists
                   \/ /\ last'.flag
                      /\ last'.called
                      /\ \E childContext \in getChildContext(last'.node) :
                             ~(DOMAIN childContext \subseteq childContextTypes(last'.node))
                /\ UNCHANGED <<contextStackCursor, didPerformWorkStackCursor,
                               previousContext, stateNode, heap>>]_vars

C18_Witness ==
    /\ last.op = "invalidateContextProvider"
    /\ last.flag
    /\ ~last.ok
    /\ last.called
    /\ stateNode[last.node].exists
    /\ stateNode[last.node].memoizedMergedChildContext # undefined
    /\ contextCurrent = stateNode[last.node].memoizedMergedChildContext
    /\ Top.inv = "true"

----------------------------------------------------------------------------
(* C19 *)

\* C19: for a fiber with contextTypes, getMaskedContext(n, E) returns an
\* object whose keys are exactly the declared ones, each with E's value for it
\* ("undefined" when E lacks the key), whether it was built by this call or
\* served from the memo; the memo fields are written only on an instance, and
\* then hold E and the object returned for it.
C19_MaskedValues ==
    /\ (last.op = "getMaskedContext" /\ hasContextTypes(last.node))
       => /\ DOMAIN Obj(last.res) = contextTypes(last.node)
          /\ \A k \in contextTypes(last.node) :
                 Obj(last.res)[k] = Get(Obj(last.env), k)
          /\ stateNode[last.node].exists
             => /\ stateNode[last.node].memoizedUnmaskedChildContext = last.env
                /\ stateNode[last.node].memoizedMaskedChildContext = last.res
    /\ \A fiber \in Components :
           IF stateNode[fiber].memoizedUnmaskedChildContext = undefined
           THEN stateNode[fiber].memoizedMaskedChildContext = undefined
           ELSE /\ stateNode[fiber].exists
                /\ hasContextTypes(fiber)
                /\ stateNode[fiber].memoizedMaskedChildContext \in Refs \ {emptyObject}
                /\ Obj(stateNode[fiber].memoizedMaskedChildContext)
                       = maskContext(fiber,
                                     Obj(stateNode[fiber].memoizedUnmaskedChildContext))

\* served from the memo after a call with another object had replaced it
C19_Witness ==
    /\ last.op = "getMaskedContext"
    /\ hasContextTypes(last.node)
    /\ stateNode[last.node].exists
    /\ last.rep
    /\ last.res = last.prevRes
    /\ Len(heap) >= 3
    /\ Obj(last.res) = [color |-> "undefined"]

====
